---- MODULE Spec2Model ----
(***************************************************************************)
(* Synchronisation of locally stored PDF form fields with the DataPad      *)
(* registry: app/services/sync_service.py (SyncService), the retrying      *)
(* request of app/services/datapad_client.py and the sync route of         *)
(* app/api/routes/datapad.py.                                              *)
(*                                                                         *)
(* Form and FormField in sync_service.py denote the document and field     *)
(* entities of app.models; a field row is modelled by the three columns    *)
(* the service reads and writes: form_id, status, datapad_field_id.        *)
(* The session expires its objects on every commit, so every step of a     *)
(* request reads the committed rows.  A request is cut into steps at its   *)
(* awaits on the remote registry; the process may crash between steps.     *)
(***************************************************************************)
EXTENDS Integers, Sequences, FiniteSets, TLC

(* ---------------------------- bounds ---------------------------------- *)

\* Number of field rows in the store.
NumFields == 2

\* Number of documents in the store; document NumForms + 1 does not exist.
NumForms == 1

\* How often, while one field is handled, the registry may answer 404 under
\* the overwrite policy (bounds the depth of the recursion of _sync_field).
MaxDepth == 2

\* Cap of the per-field count of remote creations.
MaxCreates == 2

\* Number of distinct values of updated_at among the rows a status request
\* reads.
MaxTime == 2

\* Number of the demo fields of the mock client that are modelled, and
\* number of distinct ids the mock client draws for created fields and for
\* created mappings.
NumDemoFields == 2

MaxMockIds == 2

\* Longest list of field descriptors handed to suggest_labels, and longest
\* array an AI provider answers with.
MaxDescriptors == 2

(* ------------------------ program constants --------------------------- *)

\* stop_after_attempt(3) of DataPadClient._request
MaxAttempts == 3

(* ------------------------------ domains ------------------------------- *)

FieldIds == 1..NumFields
Forms == 1..NumForms
DocIds == 1..(NumForms + 1)
\* Remote ids are opaque to the service, which only stores them and tests
\* them for presence: two names are enough to tell a new id from the one a
\* row referred to before.
RemoteIds == {1, 2}
NoId == 0

\* The field ids a request may name in field_ids: those of the rows and one
\* that names no row.
FieldIdInputs == 1..(NumFields + 1)

\* Values of FormField.updated_at; last_sync_at of a status response is one
\* of them or None.
Times == 1..MaxTime
NoTime == 0

Procs == {"w1", "w2"}

FieldStatuses == {"draft", "pending", "syncing", "synced", "error", "conflict"}

Policies == {"skip", "overwrite", "merge"}

\* HTTP error statuses the registry answers with.
ErrorStatuses == {404, 429, 500}

\* The document a field row belongs to (FormField.form_id), fixed at
\* extraction.
FormOf(f) == ((f - 1) % NumForms) + 1

VARIABLES
    forms,      \* ids of the documents in the store
    fields,     \* field id -> [form_id, status, datapad_field_id], with
                \* updated_at where status requests read it
    workers,    \* processes serving requests
    req,        \* process -> the request it is serving
    history,    \* whether the history variable below is recorded
    creates,    \* history: field id -> remote fields created for it since
                \* its datapad_field_id was last cleared
    client,     \* the DataPadClient: its configuration and rate-limit counters
    mock        \* the DataPadMockClient: the ids of its stored fields and mappings

vars == <<forms, fields, workers, req, history, creates, client, mock>>

(* ----------------------------- helpers -------------------------------- *)

ErrorClassWithoutValidation(status_code) ==
    IF status_code \in {401, 403} THEN "DataPadAuthenticationError"
    ELSE IF status_code = 404 THEN "DataPadNotFoundError"
    ELSE IF status_code = 429 THEN "DataPadRateLimitError"
    ELSE "DataPadAPIError"

\* DataPadClient._handle_error_response: the exception class of a status.
ErrorClass(status_code) ==
    IF status_code \in {401, 403} THEN "DataPadAuthenticationError"
    ELSE IF status_code = 404 THEN "DataPadNotFoundError"
    ELSE IF status_code = 422 THEN "DataPadValidationError"
    ELSE IF status_code = 429 THEN "DataPadRateLimitError"
    ELSE "DataPadAPIError"

\* All orders in which a query without ORDER BY may return the rows S.
Orders(S) ==
    {o \in [1..Cardinality(S) -> S] : \A i, j \in 1..Cardinality(S) : o[i] = o[j] => i = j}

ZeroSummary == [synced |-> 0, pending |-> 0, failed |-> 0, skipped |-> 0]

\* The status response of a request that is not a status request.
NoStatusResponse ==
    [status |-> "none", total_fields |-> 0, synced_fields |-> 0, pending_fields |-> 0,
     failed_fields |-> 0, last_sync_at |-> NoTime, error_count |-> 0, errors |-> <<>>]

\* Python's None among the values of a setting, a header or a local.
None == "<None>"

\* bool(v) of a value that is None or a string.
Truthy(v) == v # None /\ v # ""

\* Settings.datapad_base_url and Settings.datapad_api_key as deployed.
ConfiguredUrl == "https://api.datapad.local"

ConfiguredKey == "key-configured"

\* The values the two settings can hold.
BaseUrls == {None, "", ConfiguredUrl}

ApiKeys == {None, "", ConfiguredKey}

\* Keys handed to authenticate().
CandidateKeys == {"key-a", "key-b"}

\* A rate-limit counter no response has set yet (None).
NoCount == -1

\* DataPadClient.__init__.
NewClient(base_url, api_key) ==
    [base_url |-> base_url, api_key |-> api_key,
     rate_limit_remaining |-> NoCount, rate_limit_reset |-> NoCount]

\* Ids of the demo fields DataPadMockClient starts with, of the fields it
\* creates, and of the mappings it creates.
DemoFieldIds == {<<"demo", i>> : i \in 1..NumDemoFields}

MockFieldIds == {<<"mock", i>> : i \in 1..MaxMockIds}

MappingIds == {<<"map", i>> : i \in 1..MaxMockIds}

Labels == {"Kundennummer", "Firmenname"}

\* DataPadMockClient.__init__: the demo fields and no mapping.
NewMock ==
    [fields |-> [id \in DemoFieldIds |-> "Kundennummer"],
     mappings |-> [id \in {} |-> NoId]]

\* No exception.
NoError == [class |-> "none", status_code |-> 0, message |-> "", details |-> {}]

\* The rate-limit headers of a step in which no response arrived.
NoResponse == [remaining |-> "<NoResponse>", reset |-> "<NoResponse>"]

IdleReq ==
    [pc |-> "idle", kind |-> "none", doc |-> 0, force |-> FALSE, policy |-> "skip",
     order |-> <<>>, idx |-> 0, op |-> "none", attempt |-> 0, depth |-> 0,
     results |-> <<>>, summary |-> ZeroSummary, raised |-> "none", status |-> "none",
     count |-> 0, field_ids |-> {}, response |-> NoStatusResponse,
     pre |-> [status |-> "none", datapad_field_id |-> NoId], log |-> <<>>,
     auth |-> <<>>, original_key |-> None, error |-> NoError, headers |-> NoResponse,
     configured |-> FALSE, authenticated |-> FALSE, api_status |-> "none",
     target |-> <<>>, input |-> <<>>, provider |-> None, enabled |-> FALSE,
     omitted |-> FALSE]

Init ==
    /\ forms = Forms
    /\ fields = [f \in FieldIds |->
                    [form_id |-> FormOf(f), status |-> "draft", datapad_field_id |-> NoId]]
    /\ workers = {"w1"}
    /\ req = [p \in Procs |-> IdleReq]
    /\ history = FALSE
    /\ creates = [f \in FieldIds |-> 0]
    /\ client = NewClient(ConfiguredUrl, ConfiguredKey)
    /\ mock = NewMock

(* ------------------------ SyncService.sync_document ------------------- *)

SelectFieldsAnyDocument(document_id, field_ids) ==
    {f \in FieldIds : field_ids # {} => f \in field_ids}

\* The rows selected by the query of sync_document and reset_sync_status:
\* `if field_ids:` adds the filter only for a non-empty list.
SelectFields(document_id, field_ids) ==
    {f \in FieldIds : /\ fields[f].form_id = document_id
                      /\ (field_ids # {} => f \in field_ids)}

\* The argument field_ids of the service: omitted (None) or a list of ids.
Omitted == [omitted |-> TRUE, ids |-> {}]

ListOf(field_ids) == [omitted |-> FALSE, ids |-> field_ids]

ListGivenUnlessOmitted(arg) == ~arg.omitted

\* `if field_ids:`, false for None and for the empty list.
ListGiven(arg) == ~arg.omitted /\ arg.ids # {}

\* The same query on the argument as the service receives it: the rows of
\* the document, filtered by the ids when `if field_ids:` holds.
SelectFieldsOf(document_id, arg) ==
    LET rows == SelectFields(document_id, {})
    IN  IF ListGiven(arg) THEN rows \cap arg.ids ELSE rows

UpdateSummaryConflictFailed(summary, result_status) ==
    IF result_status = "synced" THEN [summary EXCEPT !.synced = @ + 1]
    ELSE IF result_status = "pending" THEN [summary EXCEPT !.pending = @ + 1]
    ELSE [summary EXCEPT !.failed = @ + 1]

UpdateSummarySyncedPending(summary, result_status) ==
    IF result_status = "synced" THEN [summary EXCEPT !.pending = @ + 1]
    ELSE IF result_status = "error" THEN [summary EXCEPT !.failed = @ + 1]
    ELSE [summary EXCEPT !.skipped = @ + 1]

\* The summary after one more result (the if/elif chain of the loop).
UpdateSummary(summary, result_status) ==
    IF result_status = "synced" THEN [summary EXCEPT !.synced = @ + 1]
    ELSE IF result_status = "pending" THEN [summary EXCEPT !.pending = @ + 1]
    ELSE IF result_status = "error" THEN [summary EXCEPT !.failed = @ + 1]
    ELSE [summary EXCEPT !.skipped = @ + 1]

OverallStatusIgnoresFailed(summary) ==
    IF summary.pending > 0 THEN "syncing" ELSE "synced"

\* The document-level status of a response.
OverallStatus(summary) ==
    IF summary.failed > 0 THEN "error"
    ELSE IF summary.pending > 0 THEN "syncing"
    ELSE "synced"

\* `form = self.session.get(Form, document_id)`: whether a document is found.
DocumentExistsAlways(document_id) == TRUE

DocumentExists(document_id) == document_id \in forms

\* sync_form of the routes: the HTTP status a call of sync_document ends in.
SyncFormStatus(raised) ==
    IF raised = "none" THEN 200
    ELSE IF raised = "ValueError" THEN 404
    ELSE 500

AlreadySyncedForceInverted(row, force) ==
    row.datapad_field_id # NoId /\ row.status = "synced" /\ force

AlreadySyncedForceIgnored(row, force) ==
    row.datapad_field_id # NoId /\ row.status = "synced"

\* The skip test at the head of _sync_field.
AlreadySynced(row, force) ==
    row.datapad_field_id # NoId /\ row.status = "synced" /\ ~force

ChooseCallAlwaysCreate(row) == "create"

\* The client call _sync_field chooses for a row (`if field.datapad_field_id`).
ChooseCall(row) ==
    IF row.datapad_field_id # NoId THEN "update" ELSE "create"

\* The field a request is handling.
CurField(r) == r.order[r.idx]

\* The request after _sync_field returned `result` to the loop of
\* sync_document: the result is appended and counted.
Returned(r, result, log) ==
    [r EXCEPT !.pc = "loop", !.idx = @ + 1, !.op = "none", !.attempt = 0, !.depth = 0,
              !.results = Append(@, result),
              !.summary = UpdateSummary(@, result.status),
              !.log = log]

NoFieldsResponseSyncing(r) == [r EXCEPT !.pc = "done", !.status = "syncing"]

\* The response of sync_document to an empty selection (`if not fields:`).
NoFieldsResponse(r) == [r EXCEPT !.pc = "done", !.status = "synced"]

\* sync_document up to the loop: the document is looked up, the rows are
\* selected, an empty selection is answered at once.  The request keeps its
\* argument field_ids until the loop takes the first row; the code does not
\* read it after the query.
SyncDocumentOf(p, document_id, arg, force, conflict_resolution) ==
    /\ req[p].pc = "idle"
    /\ LET base == [IdleReq EXCEPT !.kind = "sync", !.doc = document_id, !.force = force,
                                   !.policy = conflict_resolution,
                                   !.field_ids = arg.ids, !.omitted = arg.omitted]
           sel == SelectFieldsOf(document_id, arg)
       IN  IF ~DocumentExists(document_id)
           THEN req' = [req EXCEPT ![p] = [base EXCEPT !.pc = "done", !.raised = "ValueError"]]
           ELSE IF sel = {}
           THEN req' = [req EXCEPT ![p] = NoFieldsResponse(base)]
           ELSE \E order \in Orders(sel) :
                    req' = [req EXCEPT ![p] = [base EXCEPT !.pc = "loop", !.order = order,
                                                          !.idx = 1]]
    /\ UNCHANGED <<forms, client, mock, fields, workers, history, creates>>

\* sync_document called with a list of ids.
SyncDocument(p, document_id, field_ids, force, conflict_resolution) ==
    SyncDocumentOf(p, document_id, ListOf(field_ids), force, conflict_resolution)

\* _sync_field from its entry to the remote call: an already synced row is
\* skipped, any other row is committed as syncing and the call is issued.
SyncFieldEnter(p) ==
    /\ req[p].pc = "loop"
    /\ req[p].idx <= Len(req[p].order)
    /\ LET r == req[p]
           f == CurField(r)
           row == fields[f]
           rp == [r EXCEPT !.pre = [status |-> row.status,
                                    datapad_field_id |-> row.datapad_field_id],
                           !.field_ids = {}, !.omitted = FALSE]
       IN  IF AlreadySynced(row, r.force)
           THEN /\ req' = [req EXCEPT ![p] =
                              Returned(rp, [field_id |-> f, status |-> "synced",
                                            datapad_field_id |-> row.datapad_field_id,
                                            error_message |-> ""], <<>>)]
                /\ UNCHANGED fields
           ELSE /\ fields' = [fields EXCEPT ![f].status = "syncing"]
                /\ req' = [req EXCEPT ![p] =
                              [rp EXCEPT !.pc = "call", !.op = ChooseCall(row),
                                         !.attempt = 1, !.depth = 0, !.log = <<>>]]
    /\ UNCHANGED <<forms, client, mock, workers, history, creates>>

\* The end of the loop: the response is built and returned.
SyncFinish(p) ==
    /\ req[p].pc = "loop"
    /\ req[p].idx > Len(req[p].order)
    /\ req' = [req EXCEPT ![p] = [@ EXCEPT !.pc = "done",
                                           !.status = OverallStatus(req[p].summary)]]
    /\ UNCHANGED <<forms, client, mock, fields, workers, history, creates>>

(* ------------------- the remote call and its outcomes ----------------- *)

Min(a, b) == IF a < b THEN a ELSE b

\* The history after the registry created one more field for f.
Created(f) ==
    IF history THEN [creates EXCEPT ![f] = Min(@ + 1, MaxCreates)] ELSE creates

\* The history after the remote ids of the rows S were cleared.
Cleared(S) ==
    [f \in FieldIds |-> IF f \in S THEN 0 ELSE creates[f]]

\* The id the registry gives the new remote field of the handled row: it is
\* not the id the row referred to before the handling.
FreshIds(r) ==
    {CHOOSE id \in RemoteIds : id # r.pre.datapad_field_id}

HandlerNotFoundOnly(exc) == "not_found"

\* The except clause of _sync_field that catches an exception class.
Handler(exc) ==
    IF exc = "DataPadNotFoundError" THEN "not_found"
    ELSE IF exc \in {"DataPadAuthenticationError", "DataPadValidationError",
                     "DataPadRateLimitError", "DataPadAPIError"} THEN "api_error"
    ELSE "unexpected"

NotFoundActionAlwaysRecreate(conflict_resolution) == "recreate"

\* What the DataPadNotFoundError clause does under a policy.
NotFoundAction(conflict_resolution) ==
    IF conflict_resolution = "overwrite" THEN "recreate" ELSE "conflict"

\* error_message of the result each except clause builds.
ErrorMessage(exc) ==
    IF Handler(exc) = "not_found" THEN "DataPad field not found"
    ELSE IF Handler(exc) = "api_error" THEN exc
    ELSE "Unexpected error"

\* The retry predicate and stop condition of _request: a timeout or network
\* error is retried while attempts remain.
RetryAgain(attempt) == attempt < MaxAttempts

SyncedRowStatusOnly(row, remote_id) == [row EXCEPT !.status = "synced"]

\* The row after a successful call (lines 219-224).
SyncedRow(row, remote_id) ==
    [row EXCEPT !.datapad_field_id = remote_id, !.status = "synced"]

FailedRowKeepsSyncing(row, exc) == [row EXCEPT !.status = "syncing"]

FailedRowNotCommitted(row, exc) == row

FailedRowAlwaysError(row, exc) == [row EXCEPT !.status = "error"]

\* The row after the except clause that ends the handling.
FailedRow(row, exc) ==
    [row EXCEPT !.status = IF Handler(exc) = "not_found" THEN "conflict" ELSE "error"]

RecreateRowKeepsId(row) == [row EXCEPT !.status = "syncing"]

\* The row after the overwrite branch and the re-entry of _sync_field:
\* the remote id is dropped and the row is committed as syncing again.
RecreateRow(row) ==
    [row EXCEPT !.datapad_field_id = NoId, !.status = "syncing"]

\* The result the except clauses return.
FailedResult(f, exc) ==
    [field_id |-> f,
     status |-> IF Handler(exc) = "not_found" THEN "conflict" ELSE "error",
     datapad_field_id |-> NoId,
     error_message |-> ErrorMessage(exc)]

\* An exception `exc` of the call `op` reaches the except clauses of
\* _sync_field.
Raise(p, exc) ==
    LET r == req[p]
        f == CurField(r)
        log == Append(r.log, [op |-> r.op, outcome |-> exc, id |-> NoId])
    IN  IF Handler(exc) = "not_found" /\ NotFoundAction(r.policy) = "recreate"
        THEN /\ r.depth < MaxDepth
             /\ fields' = [fields EXCEPT ![f] = RecreateRow(@)]
             /\ creates' = Cleared({f})
             /\ req' = [req EXCEPT ![p] = [r EXCEPT !.op = ChooseCall(RecreateRow(fields[f])),
                                                    !.attempt = 1, !.depth = @ + 1,
                                                    !.log = log]]
        ELSE /\ fields' = [fields EXCEPT ![f] = FailedRow(@, exc)]
             /\ req' = [req EXCEPT ![p] = Returned(r, FailedResult(f, exc), log)]
             /\ UNCHANGED creates

\* The registry answers the request with a success status.
RespondOk(p) ==
    /\ req[p].pc = "call"
    /\ LET r == req[p]
           f == CurField(r)
       IN  \E remote_id \in (IF r.op = "create" THEN FreshIds(r)
                              ELSE {fields[f].datapad_field_id}) :
              /\ fields' = [fields EXCEPT ![f] = SyncedRow(@, remote_id)]
              /\ creates' = IF r.op = "create" THEN Created(f) ELSE creates
              /\ req' = [req EXCEPT ![p] =
                            Returned(r, [field_id |-> f, status |-> "synced",
                                         datapad_field_id |-> remote_id,
                                         error_message |-> ""],
                                     Append(r.log, [op |-> r.op, outcome |-> "ok",
                                                    id |-> remote_id]))]
    /\ UNCHANGED <<forms, client, mock, workers, history>>

\* The registry answers with an error status (>= 400): the classified
\* exception is raised, the request is not retried.
RespondError(p, status_code) ==
    /\ req[p].pc = "call"
    /\ Raise(p, ErrorClass(status_code))
    /\ UNCHANGED <<forms, client, mock, workers, history>>

\* The attempt ends in a timeout or network error.  `processed` tells
\* whether the registry had carried the request out before the response
\* was lost.  The attempt is repeated while attempts remain; afterwards
\* tenacity raises RetryError.
TransientFailure(p, processed) ==
    /\ req[p].pc = "call"
    /\ LET r == req[p]
           f == CurField(r)
           made == IF processed /\ r.op = "create" THEN Created(f) ELSE creates
       IN  IF RetryAgain(r.attempt)
           THEN /\ req' = [req EXCEPT ![p].attempt = @ + 1]
                /\ creates' = made
                /\ UNCHANGED fields
           ELSE /\ fields' = [fields EXCEPT ![f] = FailedRow(@, "RetryError")]
                /\ creates' = made
                /\ req' = [req EXCEPT ![p] =
                              Returned(r, FailedResult(f, "RetryError"),
                                       Append(r.log, [op |-> r.op, outcome |-> "RetryError",
                                                      id |-> NoId]))]
    /\ UNCHANGED <<forms, client, mock, workers, history>>

(* ----------------------- reset, return, crash ------------------------- *)

ResetRowKeepsId(row) == [row EXCEPT !.status = "pending"]

ResetRowToggling(row) ==
    [row EXCEPT !.status = IF @ = "pending" THEN "draft" ELSE "pending",
                !.datapad_field_id = NoId]

\* The body of the loop of reset_sync_status.
ResetRow(row) ==
    [row EXCEPT !.status = "pending", !.datapad_field_id = NoId]

\* The rows after the loop of reset_sync_status ran over the rows sel.
ResetRows(sel) ==
    [f \in FieldIds |-> IF f \in sel THEN ResetRow(fields[f]) ELSE fields[f]]

\* reset_sync of the routes: the HTTP status a call of reset_sync_status
\* ends in.
ResetSyncRouteStatus(raised) ==
    IF raised = "none" THEN 200
    ELSE IF raised = "ValueError" THEN 404
    ELSE 500

\* SyncService.reset_sync_status: every selected row becomes pending and
\* loses its remote id, in one commit; the number of selected rows is
\* returned.  The document is not looked up.
ResetSyncStatusOf(p, document_id, arg) ==
    /\ req[p].pc = "idle"
    /\ LET sel == SelectFieldsOf(document_id, arg)
       IN  /\ fields' = ResetRows(sel)
           /\ creates' = Cleared(sel)
           /\ req' = [req EXCEPT ![p] = [IdleReq EXCEPT !.pc = "done", !.kind = "reset",
                                                        !.doc = document_id,
                                                        !.field_ids = arg.ids,
                                                        !.omitted = arg.omitted,
                                                        !.count = Cardinality(sel)]]
    /\ UNCHANGED <<forms, client, mock, workers, history>>

\* reset_sync_status called with a list of ids.
ResetSyncStatus(p, document_id, field_ids) ==
    ResetSyncStatusOf(p, document_id, ListOf(field_ids))

\* The response (or the exception) reaches the caller.
Return(p) ==
    /\ req[p].pc = "done"
    /\ req' = [req EXCEPT ![p] = IdleReq]
    /\ UNCHANGED <<forms, client, mock, fields, workers, history, creates>>

\* The process dies inside sync_document; committed rows stay.
Crash(p) ==
    /\ req[p].pc \in {"loop", "call"}
    /\ req' = [req EXCEPT ![p] = IdleReq]
    /\ UNCHANGED <<forms, client, mock, fields, workers, history, creates>>

(* -------------------------- specification ----------------------------- *)

Next ==
    \E p \in workers :
        \/ /\ req[p].pc = "idle"
           /\ \E d \in DocIds, ids \in SUBSET FieldIdInputs, force \in BOOLEAN,
                 pol \in Policies :
                 SyncDocument(p, d, ids, force, pol)
        \/ SyncFieldEnter(p)
        \/ SyncFinish(p)
        \/ RespondOk(p)
        \/ /\ req[p].pc = "call"
           /\ \E sc \in ErrorStatuses : RespondError(p, sc)
        \/ /\ req[p].pc = "call"
           /\ \E processed \in BOOLEAN : TransientFailure(p, processed)
        \/ /\ req[p].pc = "idle"
           /\ \E d \in DocIds, ids \in SUBSET FieldIds : ResetSyncStatus(p, d, ids)
        \/ Return(p)
        \/ Crash(p)

Spec == Init /\ [][Next]_vars

\* The sync requests of one caller alone: sync_document with its field syncs
\* and the answers of the registry, without the reset route.
NextSync ==
    \E p \in workers :
        \/ /\ req[p].pc = "idle"
           /\ \E d \in DocIds, ids \in SUBSET FieldIdInputs, force \in BOOLEAN,
                 pol \in Policies :
                 SyncDocument(p, d, ids, force, pol)
        \/ SyncFieldEnter(p)
        \/ SyncFinish(p)
        \/ RespondOk(p)
        \/ /\ req[p].pc = "call"
           /\ \E sc \in ErrorStatuses : RespondError(p, sc)
        \/ /\ req[p].pc = "call"
           /\ \E processed \in BOOLEAN : TransientFailure(p, processed)
        \/ Return(p)
        \/ Crash(p)

SpecSync == Init /\ [][NextSync]_vars

\* The same program with the history of remote creations recorded.
InitHistory ==
    /\ forms = Forms
    /\ fields = [f \in FieldIds |->
                    [form_id |-> FormOf(f), status |-> "draft", datapad_field_id |-> NoId]]
    /\ workers = {"w1"}
    /\ req = [p \in Procs |-> IdleReq]
    /\ history = TRUE
    /\ creates = [f \in FieldIds |-> 0]
    /\ client = NewClient(ConfiguredUrl, ConfiguredKey)
    /\ mock = NewMock

SpecHistory == InitHistory /\ [][Next]_vars

(* ------------------- the field route next to the sync ---------------- *)

\* The keys of FormFieldUpdate that are columns of the model.
PatchKeys == {"status", "datapad_field_id"}

\* The values a patch sets in them: a status, and a remote id or null.
PatchStatuses == {"pending", "synced"}

PatchRemoteIds == {NoId, 1}

\* The loop of update_pdf_field: every key set in the patch is assigned.
PatchedRow(row, keys, status, datapad_field_id) ==
    [row EXCEPT !.status = IF "status" \in keys THEN status ELSE @,
                !.datapad_field_id = IF "datapad_field_id" \in keys
                                     THEN datapad_field_id ELSE @]

\* PATCH /fields/{field_id} (update_pdf_field): the keys set in the patch are
\* written to the row and committed; an unknown field id is answered 404.
\* The route has a session of its own and does not look at the requests in
\* flight.
UpdatePdfField(field_id, keys, status, datapad_field_id) ==
    /\ fields' = [f \in FieldIds |->
                     IF f = field_id
                     THEN PatchedRow(fields[f], keys, status, datapad_field_id)
                     ELSE fields[f]]
    /\ UNCHANGED <<forms, client, mock, workers, req, history, creates>>

\* The field route next to syncs of whole documents under the skip policy,
\* with a registry that answers every request.
NextForms ==
    \/ \E p \in workers :
          \/ /\ req[p].pc = "idle"
             /\ \E d \in DocIds, force \in BOOLEAN : SyncDocument(p, d, {}, force, "skip")
          \/ SyncFieldEnter(p)
          \/ SyncFinish(p)
          \/ RespondOk(p)
          \/ /\ req[p].pc = "call"
             /\ \E sc \in ErrorStatuses : RespondError(p, sc)
          \/ Return(p)
    \/ \E field_id \in FieldIdInputs, keys \in SUBSET PatchKeys, status \in PatchStatuses,
          datapad_field_id \in PatchRemoteIds :
          UpdatePdfField(field_id, keys, status, datapad_field_id)

SpecForms == Init /\ [][NextForms]_vars

(* ------------------------- concurrent requests ------------------------ *)

\* Two requests are served at a time, each by a SyncService with a session
\* of its own; sync_form and sync_document take no lock.
InitConcurrent ==
    /\ forms = Forms
    /\ fields = [f \in FieldIds |->
                    [form_id |-> FormOf(f), status |-> "draft", datapad_field_id |-> NoId]]
    /\ workers = Procs
    /\ req = [p \in Procs |-> IdleReq]
    /\ history = FALSE
    /\ creates = [f \in FieldIds |-> 0]
    /\ client = NewClient(ConfiguredUrl, ConfiguredKey)
    /\ mock = NewMock

\* Syncs of whole documents without force under the skip policy; the steps
\* of the two requests interleave at their awaits.
NextConcurrent ==
    \E p \in workers :
        \/ /\ req[p].pc = "idle"
           /\ \E d \in Forms : SyncDocument(p, d, {}, FALSE, "skip")
        \/ SyncFieldEnter(p)
        \/ SyncFinish(p)
        \/ RespondOk(p)
        \/ /\ req[p].pc = "call"
           /\ \E sc \in ErrorStatuses : RespondError(p, sc)
        \/ Return(p)

SpecConcurrent == InitConcurrent /\ [][NextConcurrent]_vars

(* ----------------------- a store of several documents ---------------- *)

\* Every document of DocIds exists; the last row belongs either to the
\* document of the rows before it or to the document that has no other row.
InitFrame ==
    /\ forms = DocIds
    /\ \E d \in {FormOf(NumFields), NumForms + 1} :
          fields = [f \in FieldIds |->
                       [form_id |-> IF f = NumFields THEN d ELSE FormOf(f),
                        status |-> "draft", datapad_field_id |-> NoId]]
    /\ workers = {"w1"}
    /\ req = [p \in Procs |-> IdleReq]
    /\ history = FALSE
    /\ creates = [f \in FieldIds |-> 0]
    /\ client = NewClient(ConfiguredUrl, ConfiguredKey)
    /\ mock = NewMock

\* The sync requests on that store, with every input and every outcome of
\* the remote call.
NextFrame ==
    \E p \in workers :
        \/ /\ req[p].pc = "idle"
           /\ \E d \in DocIds, ids \in SUBSET FieldIdInputs, force \in BOOLEAN,
                 pol \in Policies :
                 SyncDocument(p, d, ids, force, pol)
        \/ SyncFieldEnter(p)
        \/ SyncFinish(p)
        \/ RespondOk(p)
        \/ /\ req[p].pc = "call"
           /\ \E sc \in ErrorStatuses : RespondError(p, sc)
        \/ /\ req[p].pc = "call"
           /\ \E processed \in BOOLEAN : TransientFailure(p, processed)
        \/ Return(p)

SpecFrame == InitFrame /\ [][NextFrame]_vars

(* --------------------- reset on rows in any state ---------------------- *)

\* The rows a reset may find: any status, with or without remote id, on a
\* store laid out as in InitFrame.
InitReset ==
    /\ forms = DocIds
    /\ fields \in [FieldIds -> [form_id : DocIds, status : FieldStatuses,
                                datapad_field_id : RemoteIds \cup {NoId}]]
    /\ \E d \in {FormOf(NumFields), NumForms + 1} :
          \A f \in FieldIds : fields[f].form_id = IF f = NumFields THEN d ELSE FormOf(f)
    /\ workers = {"w1"}
    /\ req = [p \in Procs |-> IdleReq]
    /\ history = FALSE
    /\ creates = [f \in FieldIds |-> 0]
    /\ client = NewClient(ConfiguredUrl, ConfiguredKey)
    /\ mock = NewMock

\* Reset requests with every input.
NextReset ==
    \E p \in workers :
        \/ /\ req[p].pc = "idle"
           /\ \E d \in DocIds, ids \in SUBSET FieldIdInputs : ResetSyncStatus(p, d, ids)
        \/ Return(p)

SpecReset == InitReset /\ [][NextReset]_vars

(* ------------------- SyncService.get_sync_status ---------------------- *)

\* The rows of the query of get_sync_status: all rows of the document.
DocumentRows(document_id) ==
    {f \in FieldIds : fields[f].form_id = document_id}

\* sum(1 for f in fields if f.status in statuses)
CountStatus(rows, statuses) ==
    Cardinality({f \in rows : fields[f].status \in statuses})

LastSyncAtAnyRow(rows) ==
    IF rows = {} THEN NoTime
    ELSE CHOOSE t \in {fields[f].updated_at : f \in rows} :
            \A f \in rows : fields[f].updated_at <= t

\* last_sync_at: the greatest updated_at of the synced rows, None without a
\* synced row.
LastSyncAt(rows) ==
    LET synced == {f \in rows : fields[f].status = "synced"}
    IN  IF synced = {} THEN NoTime
        ELSE CHOOSE t \in {fields[f].updated_at : f \in synced} :
                \A f \in synced : fields[f].updated_at <= t

\* The error strings, one for each row in error in the order of the query;
\* a string is modelled by the id of the field it names.
ErrorsOf(order) ==
    SelectSeq(order, LAMBDA f : fields[f].status = "error")

StatusOfSyncedUnlessPending(total_fields, synced_fields, pending_fields, failed_fields) ==
    IF failed_fields > 0 THEN "error"
    ELSE IF pending_fields > 0 THEN "pending"
    ELSE "synced"

\* The overall status of a status response.
StatusOf(total_fields, synced_fields, pending_fields, failed_fields) ==
    IF failed_fields > 0 THEN "error"
    ELSE IF pending_fields > 0 THEN "pending"
    ELSE IF total_fields = synced_fields THEN "synced"
    ELSE "pending"

\* The response get_sync_status builds from the rows in the order `order`.
StatusResponse(order) ==
    LET rows == {order[i] : i \in 1..Len(order)}
        total_fields == Len(order)
        synced_fields == CountStatus(rows, {"synced"})
        pending_fields == CountStatus(rows, {"pending", "draft"})
        failed_fields == CountStatus(rows, {"error"})
        errors == ErrorsOf(order)
    IN  [status |-> StatusOf(total_fields, synced_fields, pending_fields, failed_fields),
         total_fields |-> total_fields,
         synced_fields |-> synced_fields,
         pending_fields |-> pending_fields,
         failed_fields |-> failed_fields,
         last_sync_at |-> LastSyncAt(rows),
         error_count |-> Len(errors),
         errors |-> errors]

\* The request of a status call before its outcome is filled in.
StatusReq(document_id) ==
    [IdleReq EXCEPT !.pc = "done", !.kind = "status", !.doc = document_id]

\* get_sync_status of the routes: the HTTP status a call ends in.
SyncStatusRouteStatus(raised) ==
    IF raised = "none" THEN 200
    ELSE IF raised = "ValueError" THEN 404
    ELSE 500

GetSyncStatusAcknowledging(p, document_id) ==
    /\ req[p].pc = "idle"
    /\ IF ~DocumentExists(document_id)
       THEN req' = [req EXCEPT ![p] = [StatusReq(document_id) EXCEPT !.raised = "ValueError"]]
       ELSE \E order \in Orders(DocumentRows(document_id)) :
                req' = [req EXCEPT ![p] = [StatusReq(document_id) EXCEPT
                                              !.response = StatusResponse(order)]]
    /\ fields' = [f \in FieldIds |->
                     IF f \in DocumentRows(document_id) /\ fields[f].status = "error"
                     THEN [fields[f] EXCEPT !.status = "pending"]
                     ELSE fields[f]]
    /\ UNCHANGED <<forms, client, mock, workers, history, creates>>

\* SyncService.get_sync_status: the document is looked up, its rows are
\* read and counted; nothing is written.
GetSyncStatus(p, document_id) ==
    /\ req[p].pc = "idle"
    /\ IF ~DocumentExists(document_id)
       THEN req' = [req EXCEPT ![p] = [StatusReq(document_id) EXCEPT !.raised = "ValueError"]]
       ELSE \E order \in Orders(DocumentRows(document_id)) :
                req' = [req EXCEPT ![p] = [StatusReq(document_id) EXCEPT
                                              !.response = StatusResponse(order)]]
    /\ UNCHANGED <<forms, client, mock, fields, workers, history, creates>>

\* The rows a status request may find: any status, any time of the last
\* update, a remote id on the synced rows.
InitStatus ==
    /\ forms = Forms
    /\ fields \in [FieldIds -> [form_id : Forms, status : FieldStatuses,
                                datapad_field_id : RemoteIds \cup {NoId},
                                updated_at : Times]]
    /\ \A f \in FieldIds :
          /\ fields[f].form_id = FormOf(f)
          /\ fields[f].datapad_field_id =
                IF fields[f].status = "synced" THEN 1 ELSE NoId
    /\ workers = Procs
    /\ req = [p \in Procs |-> IdleReq]
    /\ history = FALSE
    /\ creates = [f \in FieldIds |-> 0]
    /\ client = NewClient(ConfiguredUrl, ConfiguredKey)
    /\ mock = NewMock

\* Status requests of two callers.
NextStatus ==
    \E p \in workers :
        \/ /\ req[p].pc = "idle"
           /\ \E d \in DocIds : GetSyncStatus(p, d)
        \/ Return(p)

SpecStatus == InitStatus /\ [][NextStatus]_vars

\* The same rows in a store where document NumForms + 1 exists and has no
\* rows.
InitStatusEmpty ==
    /\ forms = DocIds
    /\ fields \in [FieldIds -> [form_id : Forms, status : FieldStatuses,
                                datapad_field_id : RemoteIds \cup {NoId},
                                updated_at : Times]]
    /\ \A f \in FieldIds :
          /\ fields[f].form_id = FormOf(f)
          /\ fields[f].datapad_field_id =
                IF fields[f].status = "synced" THEN 1 ELSE NoId
    /\ workers = {"w1"}
    /\ req = [p \in Procs |-> IdleReq]
    /\ history = FALSE
    /\ creates = [f \in FieldIds |-> 0]
    /\ client = NewClient(ConfiguredUrl, ConfiguredKey)
    /\ mock = NewMock

SpecStatusEmpty == InitStatusEmpty /\ [][NextStatus]_vars

(* --------------------------- DataPadClient ---------------------------- *)

\* The statuses the registry answers a request of the client with.
StatusCodes == {200, 400, 401, 403, 404, 422, 429, 500}

\* Response bodies: a JSON object with some of the keys message, error and
\* details, or text that is not JSON.
Bodies ==
    {[json |-> TRUE, keys |-> {"message", "details"}, message |-> "invalid label",
      error |-> "", details |-> {"label"}, text |-> "{message, details}"],
     [json |-> TRUE, keys |-> {"error"}, message |-> "", error |-> "rejected",
      details |-> {}, text |-> "{error}"],
     [json |-> FALSE, keys |-> {}, message |-> "", error |-> "", details |-> {},
      text |-> "Bad Gateway"]}

\* The headers X-RateLimit-Remaining and X-RateLimit-Reset of a response:
\* absent (None), a decimal number, or text that is no number.
RateLimitHeaders ==
    {[remaining |-> None, reset |-> None], [remaining |-> "0", reset |-> None],
     [remaining |-> None, reset |-> "1"], [remaining |-> "0", reset |-> "1"],
     [remaining |-> "2", reset |-> "2"], [remaining |-> "soon", reset |-> "later"]}

\* What ends an attempt that received no response.
AttemptExceptions == {"TimeoutException", "NetworkError", "ProtocolError"}

\* int() on a header value: the decimal strings and their values.
DigitStrings == <<"0", "1", "2">>

IsInt(s) == \E i \in DOMAIN DigitStrings : DigitStrings[i] = s

ParseInt(s) == (CHOOSE i \in DOMAIN DigitStrings : DigitStrings[i] = s) - 1

\* DataPadClient._get_headers: the Authorization header, sent only when a
\* key is set.
GetHeaders(c) == IF Truthy(c.api_key) THEN <<"Bearer", c.api_key>> ELSE <<>>

IsConfiguredKeyOnly(c) == Truthy(c.api_key)

\* DataPadClient.is_configured: bool(api_key and base_url).
IsConfigured(c) ==
    LET v == IF Truthy(c.api_key) THEN c.base_url ELSE c.api_key
    IN  Truthy(v)

UpdateRateLimitsClearing(c, headers) ==
    [c EXCEPT !.rate_limit_remaining =
                  IF headers.remaining # None /\ IsInt(headers.remaining)
                  THEN ParseInt(headers.remaining) ELSE NoCount,
              !.rate_limit_reset =
                  IF headers.reset # None /\ IsInt(headers.reset)
                  THEN ParseInt(headers.reset) ELSE NoCount]

\* DataPadClient._update_rate_limits: a header that is present and parses
\* sets its counter; int() failing is swallowed.
UpdateRateLimits(c, headers) ==
    [c EXCEPT !.rate_limit_remaining =
                  IF headers.remaining # None /\ IsInt(headers.remaining)
                  THEN ParseInt(headers.remaining) ELSE @,
              !.rate_limit_reset =
                  IF headers.reset # None /\ IsInt(headers.reset)
                  THEN ParseInt(headers.reset) ELSE @]

\* message and details _handle_error_response reads from the body.
MessageOf(body) ==
    IF body.json /\ "message" \in body.keys THEN body.message
    ELSE IF body.json /\ "error" \in body.keys THEN body.error
    ELSE body.text

DetailsOf(body) ==
    IF body.json /\ "details" \in body.keys THEN body.details ELSE {}

\* DataPadClient._handle_error_response: the exception raised for an error
\* response.
HandleErrorResponse(status_code, body) ==
    [class |-> ErrorClass(status_code), status_code |-> status_code,
     message |-> MessageOf(body), details |-> DetailsOf(body)]

\* The DataPadAPIError the last except clause of _request raises.
UnexpectedError ==
    [class |-> "DataPadAPIError", status_code |-> 0, message |-> "Unexpected error",
     details |-> {}]

\* What tenacity raises when the last attempt failed as the earlier ones.
RetryError ==
    [class |-> "RetryError", status_code |-> 0, message |-> "RetryError", details |-> {}]

RetriableAlways(exc) == TRUE

\* retry_if_exception_type((httpx.TimeoutException, httpx.NetworkError)).
Retriable(exc) == exc \in {"TimeoutException", "NetworkError"}

\* One attempt of _request is sent: the headers are built from the key the
\* client holds at that moment.
SendAttempt(r, c) ==
    [r EXCEPT !.pc = "wait", !.attempt = @ + 1, !.auth = GetHeaders(c)]

\* The entry an attempt leaves in the log of its call.
AttemptEntry(r, outcome, status_code, body) ==
    [auth |-> r.auth, outcome |-> outcome, status_code |-> status_code, body |-> body]

\* What follows when _request has returned (error is NoError) or raised:
\* the caller's except and finally clauses, and the rest of the health route.
Completed(c, r, error) ==
    IF r.op = "authenticate"
    THEN [client |-> [c EXCEPT !.api_key = r.original_key],
          req |-> IF r.kind = "health"
                  THEN [r EXCEPT !.pc = "done", !.error = error,
                                 !.authenticated = (error = NoError),
                                 !.api_status =
                                     IF error.class \in {"none", "DataPadAuthenticationError"}
                                     THEN @ ELSE "unhealthy"]
                  ELSE [r EXCEPT !.pc = "done", !.error = error,
                                 !.raised = error.class]]
    ELSE IF r.op = "health_check"
    THEN LET h == [r EXCEPT !.api_status =
                                IF error = NoError THEN "healthy" ELSE "unhealthy",
                            !.configured = IsConfigured(c)]
         IN  IF IsConfigured(c)
             THEN [client |-> c,
                   req |-> SendAttempt([h EXCEPT !.op = "authenticate",
                                                 !.original_key = c.api_key,
                                                 !.attempt = 0, !.log = <<>>], c)]
             ELSE [client |-> c, req |-> [h EXCEPT !.pc = "done"]]
    ELSE [client |-> c,
          req |-> [r EXCEPT !.pc = "done", !.error = error, !.raised = error.class]]

\* A call of _request by one of the operations of the client (get_fields,
\* create_field, ...).
ClientRequest(p) ==
    /\ req[p].pc = "idle"
    /\ req' = [req EXCEPT ![p] =
                  SendAttempt([IdleReq EXCEPT !.kind = "request", !.op = "request"],
                              client)]
    /\ UNCHANGED <<forms, fields, workers, history, creates, client, mock>>

\* DataPadClient.authenticate up to the first await of its request.
Authenticate(p, api_key) ==
    /\ req[p].pc = "idle"
    /\ LET c == [client EXCEPT !.api_key = api_key]
       IN  /\ client' = c
           /\ req' = [req EXCEPT ![p] =
                         SendAttempt([IdleReq EXCEPT !.kind = "authenticate",
                                                     !.op = "authenticate",
                                                     !.original_key = client.api_key],
                                     c)]
    /\ UNCHANGED <<forms, fields, workers, history, creates, mock>>

\* GET /datapad/health up to the first await of DataPadClient.health_check.
HealthCheck(p) ==
    /\ req[p].pc = "idle"
    /\ req' = [req EXCEPT ![p] =
                  SendAttempt([IdleReq EXCEPT !.kind = "health", !.op = "health_check"],
                              client)]
    /\ UNCHANGED <<forms, fields, workers, history, creates, client, mock>>

\* A response arrives: the counters are updated, then the status is looked
\* at and the body is parsed.
Respond(p, status_code, body, headers) ==
    /\ req[p].pc = "wait"
    /\ LET c == UpdateRateLimits(client, headers)
           r == [req[p] EXCEPT !.log = Append(@, AttemptEntry(req[p], "response",
                                                              status_code, body)),
                               !.headers = headers]
           error == IF status_code >= 400 THEN HandleErrorResponse(status_code, body)
                    ELSE IF body.json THEN NoError
                    ELSE UnexpectedError
           out == Completed(c, r, error)
       IN  /\ client' = out.client
           /\ req' = [req EXCEPT ![p] = out.req]
    /\ UNCHANGED <<forms, fields, workers, history, creates, mock>>

\* An attempt ends without a response.
AttemptFails(p, exc) ==
    /\ req[p].pc = "wait"
    /\ LET r == [req[p] EXCEPT !.log = Append(@, AttemptEntry(req[p], exc, 0,
                                                              CHOOSE b \in Bodies : ~b.json)),
                               !.headers = NoResponse]
       IN  IF Retriable(exc) /\ RetryAgain(req[p].attempt)
           THEN /\ req' = [req EXCEPT ![p] = [r EXCEPT !.pc = "backoff"]]
                /\ UNCHANGED client
           ELSE LET out == Completed(client, r,
                                     IF Retriable(exc) THEN RetryError
                                     ELSE UnexpectedError)
                IN  /\ client' = out.client
                    /\ req' = [req EXCEPT ![p] = out.req]
    /\ UNCHANGED <<forms, fields, workers, history, creates, mock>>

\* The wait of wait_exponential is over: the next attempt is sent.
RetryAttempt(p) ==
    /\ req[p].pc = "backoff"
    /\ req' = [req EXCEPT ![p] = SendAttempt(req[p], client)]
    /\ UNCHANGED <<forms, fields, workers, history, creates, client, mock>>

\* A client built from any settings.
InitClient ==
    /\ forms = Forms
    /\ fields = [f \in FieldIds |->
                    [form_id |-> FormOf(f), status |-> "draft", datapad_field_id |-> NoId]]
    /\ workers = {"w1"}
    /\ req = [p \in Procs |-> IdleReq]
    /\ history = FALSE
    /\ creates = [f \in FieldIds |-> 0]
    /\ \E base_url \in BaseUrls, api_key \in ApiKeys : client = NewClient(base_url, api_key)
    /\ mock = NewMock

\* The calls of one caller of the client, with every outcome of an attempt.
NextClient ==
    \E p \in workers :
        \/ ClientRequest(p)
        \/ \E api_key \in CandidateKeys : Authenticate(p, api_key)
        \/ HealthCheck(p)
        \/ \E status_code \in StatusCodes, body \in Bodies, headers \in RateLimitHeaders :
              Respond(p, status_code, body, headers)
        \/ \E exc \in AttemptExceptions : AttemptFails(p, exc)
        \/ RetryAttempt(p)
        \/ Return(p)

SpecClient == InitClient /\ [][NextClient]_vars

(* ------------------ concurrent callers of one client ------------------ *)

\* One configured client used by two callers.
InitAuth ==
    /\ forms = Forms
    /\ fields = [f \in FieldIds |->
                    [form_id |-> FormOf(f), status |-> "draft", datapad_field_id |-> NoId]]
    /\ workers = Procs
    /\ req = [p \in Procs |-> IdleReq]
    /\ history = FALSE
    /\ creates = [f \in FieldIds |-> 0]
    /\ client = NewClient(ConfiguredUrl, ConfiguredKey)
    /\ mock = NewMock

\* Requests and authenticate calls whose steps interleave at the awaits of
\* _request; the registry accepts or rejects the key, or the attempt times
\* out.
NextAuth ==
    \E p \in workers :
        \/ ClientRequest(p)
        \/ \E api_key \in CandidateKeys : Authenticate(p, api_key)
        \/ \E status_code \in {200, 401} :
              Respond(p, status_code, CHOOSE b \in Bodies : "error" \in b.keys,
                      [remaining |-> None, reset |-> None])
        \/ AttemptFails(p, "TimeoutException")
        \/ RetryAttempt(p)
        \/ Return(p)

SpecAuth == InitAuth /\ [][NextAuth]_vars

(* -------------------------- DataPadMockClient -------------------------- *)

\* Ids a caller may name: those of the demo fields and of created fields.
AllFieldIds == DemoFieldIds \cup MockFieldIds

\* dict[key] = value and del dict[key].
Put(store, key, value) ==
    [k \in DOMAIN store \cup {key} |-> IF k = key THEN value ELSE store[k]]

Drop(store, key) == [k \in DOMAIN store \ {key} |-> store[k]]

MissingNever(store, key) == FALSE

\* `key not in store`.
Missing(store, key) == key \notin DOMAIN store

\* DataPadNotFoundError(f"Mock ... not found", 404).
MockNotFound(what) ==
    [class |-> "DataPadNotFoundError", status_code |-> 404, message |-> what,
     details |-> {}]

\* A call of the mock client that has returned or raised.
MockReq(op, target, error) ==
    [IdleReq EXCEPT !.kind = "mock", !.pc = "done", !.op = op, !.target = target,
                    !.error = error, !.raised = error.class]

\* create_field: the id is drawn by uuid4.
MockCreateField(p, field_id, label) ==
    /\ req[p].pc = "idle"
    /\ mock' = [mock EXCEPT !.fields = Put(@, field_id, label)]
    /\ req' = [req EXCEPT ![p] = MockReq("create_field", field_id, NoError)]
    /\ UNCHANGED <<forms, fields, workers, history, creates, client>>

\* update_field: update_data sets the label or leaves it unset.
MockUpdateField(p, field_id, update) ==
    /\ req[p].pc = "idle"
    /\ IF Missing(mock.fields, field_id)
       THEN /\ req' = [req EXCEPT ![p] =
                          MockReq("update_field", field_id, MockNotFound("Mock field not found"))]
            /\ UNCHANGED mock
       ELSE /\ mock' = [mock EXCEPT !.fields =
                           IF "label" \in DOMAIN update
                           THEN Put(@, field_id, update.label) ELSE @]
            /\ req' = [req EXCEPT ![p] = MockReq("update_field", field_id, NoError)]
    /\ UNCHANGED <<forms, fields, workers, history, creates, client>>

\* delete_field.
MockDeleteField(p, field_id) ==
    /\ req[p].pc = "idle"
    /\ IF Missing(mock.fields, field_id)
       THEN /\ req' = [req EXCEPT ![p] =
                          MockReq("delete_field", field_id, MockNotFound("Mock field not found"))]
            /\ UNCHANGED mock
       ELSE /\ mock' = [mock EXCEPT !.fields = Drop(@, field_id)]
            /\ req' = [req EXCEPT ![p] = MockReq("delete_field", field_id, NoError)]
    /\ UNCHANGED <<forms, fields, workers, history, creates, client>>

\* create_mapping: the id is drawn by uuid4; the remote field is not looked
\* up.
MockCreateMapping(p, mapping_id, datapad_field_id) ==
    /\ req[p].pc = "idle"
    /\ mock' = [mock EXCEPT !.mappings = Put(@, mapping_id, datapad_field_id)]
    /\ req' = [req EXCEPT ![p] = MockReq("create_mapping", mapping_id, NoError)]
    /\ UNCHANGED <<forms, fields, workers, history, creates, client>>

\* delete_mapping.
MockDeleteMapping(p, mapping_id) ==
    /\ req[p].pc = "idle"
    /\ IF Missing(mock.mappings, mapping_id)
       THEN /\ req' = [req EXCEPT ![p] =
                          MockReq("delete_mapping", mapping_id,
                                  MockNotFound("Mock mapping not found"))]
            /\ UNCHANGED mock
       ELSE /\ mock' = [mock EXCEPT !.mappings = Drop(@, mapping_id)]
            /\ req' = [req EXCEPT ![p] = MockReq("delete_mapping", mapping_id, NoError)]
    /\ UNCHANGED <<forms, fields, workers, history, creates, client>>

\* The updates a caller sends: a new label, or no label.
MockUpdates == {[label |-> "Firmenname"], [required |-> TRUE]}

\* Any sequence of mutations of the mock client.
NextMock ==
    \E p \in workers :
        \/ \E field_id \in MockFieldIds, label \in Labels : MockCreateField(p, field_id, label)
        \/ \E field_id \in AllFieldIds, update \in MockUpdates :
              MockUpdateField(p, field_id, update)
        \/ \E field_id \in AllFieldIds : MockDeleteField(p, field_id)
        \/ \E mapping_id \in MappingIds :
              MockCreateMapping(p, mapping_id, CHOOSE id \in DemoFieldIds : TRUE)
        \/ \E mapping_id \in MappingIds : MockDeleteMapping(p, mapping_id)
        \/ Return(p)

SpecMock == Init /\ [][NextMock]_vars

(* ------------------------------ AIService ------------------------------ *)

\* Settings.ai_provider and Settings.ai_api_key.
AiProviders == {None, "", "openai", "anthropic", "gemini", "mistral"}

AiKeys == {None, "sk-key"}

\* The providers suggest_labels has a branch for.
KnownProviders == {"openai", "anthropic", "gemini"}

\* Field descriptors (FormFieldCreate): one without label, one with.
FieldDescriptors ==
    {[pdf_name |-> "field_one", display_label |-> None, group_name |-> None,
      field_type |-> "text"],
     [pdf_name |-> "email", display_label |-> "E-Mail", group_name |-> None,
      field_type |-> "text"]}

\* The elements of the array a provider answers with: objects with the
\* three keys, or something that is no object.
AnswerItems ==
    {[object |-> TRUE, displayLabel |-> "Vorname", groupName |-> "Adresse",
      validationPattern |-> None],
     [object |-> FALSE, displayLabel |-> None, groupName |-> None,
      validationPattern |-> None]}

\* What a provider call that gives no usable answer raises.
ProviderExceptions == {"TimeoutException", "HTTPStatusError", "JSONDecodeError", "KeyError"}

SeqsUpTo(S, n) == UNION {[1..k -> S] : k \in 0..n}

\* Python's `a or b`.
Or(a, b) == IF Truthy(a) THEN a ELSE b

\* AIService.__init__: bool(ai_provider and ai_api_key).
AiEnabled(provider, api_key) ==
    Truthy(IF Truthy(provider) THEN api_key ELSE provider)

\* _humanize_field_name on the names of the descriptors.
HumanizeFieldName(field_name) ==
    CASE field_name = "field_one" -> "Field One"
      [] field_name = "email" -> "Email"

\* _infer_group_heuristic: "email" holds a keyword of Kontaktdaten,
\* "field_one" holds none.
InferGroupHeuristic(field_name) ==
    IF field_name = "email" THEN "Kontaktdaten" ELSE "Allgemein"

\* _infer_validation: the e-mail pattern for a name that holds "email".
InferValidation(field_name, field_type) ==
    IF field_name = "email" THEN "^[a-zA-Z0-9._%+-]+@" ELSE None

\* The body of the loop of _heuristic_suggestions.
HeuristicSuggestion(field) ==
    [display_label |-> Or(field.display_label, HumanizeFieldName(field.pdf_name)),
     group_name |-> Or(field.group_name, InferGroupHeuristic(field.pdf_name)),
     validation_pattern |-> InferValidation(field.pdf_name, field.field_type)]

\* AIService._heuristic_suggestions: one suggestion per descriptor.
HeuristicSuggestions(input) ==
    [i \in 1..Len(input) |-> HeuristicSuggestion(input[i])]

\* The list comprehension that ends _openai_suggestions,
\* _anthropic_suggestions and _gemini_suggestions: one suggestion per
\* element of the answer.
ProviderSuggestions(answer) ==
    [i \in 1..Len(answer) |->
        [display_label |-> answer[i].displayLabel, group_name |-> answer[i].groupName,
         validation_pattern |-> answer[i].validationPattern]]

CaughtOnlyHTTP(exc) == exc = "HTTPStatusError"

\* `except Exception` of suggest_labels.
Caught(exc) == exc \in ProviderExceptions \cup {"AttributeError"}

\* The provider branch raised exc.
ProviderRaised(r, exc) ==
    IF Caught(exc)
    THEN [r EXCEPT !.pc = "done", !.results = HeuristicSuggestions(r.input),
                   !.log = <<[outcome |-> exc]>>]
    ELSE [r EXCEPT !.pc = "done", !.raised = exc, !.log = <<[outcome |-> exc]>>]

\* suggest_labels up to the request to the provider.
SuggestLabels(p, provider, api_key, input) ==
    /\ req[p].pc = "idle"
    /\ LET r == [IdleReq EXCEPT !.kind = "suggest", !.provider = provider,
                                !.enabled = AiEnabled(provider, api_key),
                                !.input = input]
       IN  req' = [req EXCEPT ![p] =
                      IF ~r.enabled \/ provider \notin KnownProviders
                      THEN [r EXCEPT !.pc = "done",
                                     !.results = HeuristicSuggestions(input)]
                      ELSE [r EXCEPT !.pc = "provider"]]
    /\ UNCHANGED <<forms, fields, workers, history, creates, client, mock>>

\* The provider answers with a JSON array.
ProviderAnswers(p, answer) ==
    /\ req[p].pc = "provider"
    /\ req' = [req EXCEPT ![p] =
                  IF \A i \in DOMAIN answer : answer[i].object
                  THEN [@ EXCEPT !.pc = "done", !.results = ProviderSuggestions(answer),
                                 !.log = <<[outcome |-> "answer"]>>]
                  ELSE ProviderRaised(@, "AttributeError")]
    /\ UNCHANGED <<forms, fields, workers, history, creates, client, mock>>

\* The request fails, the status is an error, or the answer does not parse.
ProviderFails(p, exc) ==
    /\ req[p].pc = "provider"
    /\ req' = [req EXCEPT ![p] = ProviderRaised(@, exc)]
    /\ UNCHANGED <<forms, fields, workers, history, creates, client, mock>>

\* Label suggestions with every configuration, input and provider outcome.
NextAI ==
    \E p \in workers :
        \/ \E provider \in AiProviders, api_key \in AiKeys,
              input \in SeqsUpTo(FieldDescriptors, MaxDescriptors) :
              SuggestLabels(p, provider, api_key, input)
        \/ \E answer \in SeqsUpTo(AnswerItems, MaxDescriptors) : ProviderAnswers(p, answer)
        \/ \E exc \in ProviderExceptions : ProviderFails(p, exc)
        \/ Return(p)

SpecAI == Init /\ [][NextAI]_vars

(* ------------------- a registry that accepts every call --------------- *)

\* Syncs without force, under every policy and with every selection, on
\* rows in any state; the registry answers every create and update with
\* success.
NextAccept ==
    \E p \in workers :
        \/ /\ req[p].pc = "idle"
           /\ \E d \in DocIds, ids \in SUBSET FieldIdInputs, pol \in Policies :
                 SyncDocument(p, d, ids, FALSE, pol)
        \/ SyncFieldEnter(p)
        \/ SyncFinish(p)
        \/ RespondOk(p)
        \/ Return(p)

SpecAccept == InitReset /\ [][NextAccept]_vars

(* ------------------ field_ids omitted or given as a list -------------- *)

\* The values of the argument field_ids.
ListArgs == {Omitted} \cup {ListOf(ids) : ids \in SUBSET FieldIdInputs}

\* Syncs and resets with field_ids omitted, empty or listing ids, on rows in
\* any state; the registry accepts the calls of the sync.
NextFilter ==
    \E p \in workers :
        \/ \E d \in DocIds, arg \in ListArgs : SyncDocumentOf(p, d, arg, FALSE, "skip")
        \/ SyncFieldEnter(p)
        \/ SyncFinish(p)
        \/ RespondOk(p)
        \/ \E d \in DocIds, arg \in ListArgs : ResetSyncStatusOf(p, d, arg)
        \/ Return(p)

SpecFilter == InitReset /\ [][NextFilter]_vars

(* ------------------------------ claims -------------------------------- *)

\* A sync request of p has just handled a field: its last result, `pre` and
\* `log` are about that field.
Handled(p) ==
    /\ req[p].kind = "sync"
    /\ req[p].pc \in {"loop", "done"}
    /\ Len(req[p].results) >= 1

LastResult(p) == req[p].results[Len(req[p].results)]

LastRow(p) == fields[LastResult(p).field_id]

\* The row was synced and mapped when its handling began.
WasSyncedAndMapped(p) ==
    req[p].pre.status = "synced" /\ req[p].pre.datapad_field_id # NoId

IsCall(entry, op, outcome) == entry.op = op /\ entry.outcome = outcome

TypeOK ==
    /\ forms = Forms
    /\ \A f \in FieldIds : /\ fields[f].status \in FieldStatuses
                           /\ fields[f].datapad_field_id \in RemoteIds \cup {NoId}
    /\ \A p \in Procs : req[p].pc \in {"idle", "loop", "call", "done"}

\* C1: a field that is synced and has a remote id is skipped by
\* sync(force=false): no remote call is issued for it, its status and remote
\* id stay as they were, and its result is synced with that remote id.
C1_SkipSynced ==
    \A p \in Procs :
        (req[p].kind = "sync" /\ WasSyncedAndMapped(p) /\ ~req[p].force) =>
            /\ req[p].pc # "call"
            /\ Handled(p) =>
                /\ req[p].log = <<>>
                /\ LastRow(p).status = "synced"
                /\ LastRow(p).datapad_field_id = req[p].pre.datapad_field_id
                /\ LastResult(p).status = "synced"
                /\ LastResult(p).datapad_field_id = req[p].pre.datapad_field_id

C1_Witness ==
    \E p \in Procs :
        /\ Handled(p) /\ WasSyncedAndMapped(p) /\ ~req[p].force
        /\ req[p].log = <<>>
        /\ LastResult(p).status = "synced"

\* C2: at most one remote field is created for a local field as long as its
\* remote id is not cleared by reset or by the overwrite policy.
C2_NoDoubleCreate ==
    \A f \in FieldIds : creates[f] <= 1

\* C3: a field without remote id is synced by exactly one createField call
\* and no updateField call; when the call succeeds the row holds the returned
\* id with status synced and the result carries the same id.
C3_CreateOnce ==
    \A p \in Procs :
        (Handled(p) /\ req[p].pre.datapad_field_id = NoId) =>
            /\ Len(req[p].log) = 1
            /\ req[p].log[1].op = "create"
            /\ req[p].log[1].outcome = "ok" =>
                /\ LastRow(p).status = "synced"
                /\ LastRow(p).datapad_field_id = req[p].log[1].id
                /\ LastResult(p).status = "synced"
                /\ LastResult(p).datapad_field_id = req[p].log[1].id

\* C4: a field that is synced and has a remote id is synced under force=true
\* by an updateField call; when that call succeeds it is the only call.
C4_ForceUpdates ==
    \A p \in Procs :
        (req[p].kind = "sync" /\ WasSyncedAndMapped(p) /\ req[p].force) =>
            /\ (req[p].pc = "call" /\ req[p].depth = 0) => req[p].op = "update"
            /\ Handled(p) =>
                /\ Len(req[p].log) >= 1
                /\ req[p].log[1].op = "update"
                /\ req[p].log[1].outcome = "ok" => Len(req[p].log) = 1

C4_Witness ==
    \E p \in Procs :
        /\ Handled(p) /\ WasSyncedAndMapped(p) /\ req[p].force
        /\ req[p].log = <<[op |-> "update", outcome |-> "ok",
                           id |-> req[p].pre.datapad_field_id]>>

\* The row was not synced, but mapped, when its handling began.
WasUnsyncedAndMapped(p) ==
    req[p].pre.status \in FieldStatuses \ {"synced"} /\ req[p].pre.datapad_field_id # NoId

\* C5 as stated: a field that is not synced but has a remote id is synced by
\* updateField calls only, never a createField call.
C5_NeverCreate ==
    \A p \in Procs :
        (Handled(p) /\ WasUnsyncedAndMapped(p)) =>
            /\ Len(req[p].log) >= 1
            /\ \A i \in 1..Len(req[p].log) : req[p].log[i].op = "update"

\* C5 amended: for a field that is not synced but has a remote id the first
\* remote call is updateField whatever the force flag; a createField call is
\* made only under the overwrite policy, after the call before it ended in
\* NotFound.
C5_UpdateFirst ==
    \A p \in Procs :
        (req[p].kind = "sync" /\ WasUnsyncedAndMapped(p)) =>
            /\ (req[p].pc = "call" /\ req[p].depth = 0) => req[p].op = "update"
            /\ Handled(p) =>
                /\ Len(req[p].log) >= 1
                /\ req[p].log[1].op = "update"
                /\ \A i \in 2..Len(req[p].log) :
                      /\ req[p].log[i].op = "create"
                      /\ req[p].policy = "overwrite"
                      /\ req[p].log[i - 1].outcome = "DataPadNotFoundError"

C5_Witness ==
    \E p \in Procs :
        /\ Handled(p) /\ ~req[p].force
        /\ req[p].pre.status = "error" /\ req[p].pre.datapad_field_id # NoId
        /\ Len(req[p].log) = 1
        /\ IsCall(req[p].log[1], "update", "ok")

\* updateField was the first call for the handled field and raised NotFound.
UpdateNotFound(p) ==
    /\ Len(req[p].log) >= 1
    /\ IsCall(req[p].log[1], "update", "DataPadNotFoundError")

\* C6: under the overwrite policy a NotFound of updateField is followed by
\* exactly one createField call; when that call succeeds the field ends
\* synced with the returned remote id.
C6_OverwriteRecreatesOnce ==
    \A p \in Procs :
        (Handled(p) /\ req[p].policy = "overwrite" /\ UpdateNotFound(p)) =>
            /\ Len(req[p].log) = 2
            /\ req[p].log[2].op = "create"
            /\ req[p].log[2].outcome = "ok" =>
                /\ LastRow(p).status = "synced"
                /\ LastRow(p).datapad_field_id = req[p].log[2].id
                /\ LastResult(p).status = "synced"

\* C7: under the overwrite policy the handling of one field issues at most
\* one updateField call followed by at most one createField call.
C7_OneRetry ==
    \A p \in Procs :
        (req[p].kind = "sync" /\ req[p].policy = "overwrite") =>
            /\ req[p].depth <= 1
            /\ Len(req[p].log) <= 2
            /\ Len(req[p].log) = 2 =>
                  req[p].log[1].op = "update" /\ req[p].log[2].op = "create"

\* C8: under the skip or merge policy a NotFound of updateField ends the
\* handling of the field at once: the row is committed as conflict with its
\* remote id unchanged, the result is a conflict with an error message, and
\* no further call is made for the field.
C8_SkipMarksConflict ==
    \A p \in Procs :
        (req[p].kind = "sync" /\ req[p].policy \in {"skip", "merge"} /\ UpdateNotFound(p)) =>
            /\ Handled(p)
            /\ Len(req[p].log) = 1
            /\ LastRow(p).status = "conflict"
            /\ LastRow(p).datapad_field_id = req[p].pre.datapad_field_id
            /\ LastRow(p).datapad_field_id # NoId
            /\ LastResult(p).status = "conflict"
            /\ LastResult(p).error_message # ""

C8_Witness ==
    \E p \in Procs :
        /\ Handled(p) /\ req[p].policy = "merge" /\ UpdateNotFound(p)
        /\ LastRow(p).status = "conflict"

\* The last call for the handled field failed, and not as an updateField
\* that raised NotFound (which is a conflict).
RemoteFailure(p) ==
    /\ req[p].log # <<>>
    /\ LET last == req[p].log[Len(req[p].log)]
       IN  /\ last.outcome # "ok"
           /\ ~IsCall(last, "update", "DataPadNotFoundError")

\* C9: a remote failure on a field is captured: the row is committed as
\* error, its result is an error with a message, and sync returns one result
\* per selected field, in the order it handled them.
C9_ErrorsCaptured ==
    \A p \in Procs :
        /\ (Handled(p) /\ RemoteFailure(p)) =>
              /\ LastRow(p).status = "error"
              /\ LastResult(p).status = "error"
              /\ LastResult(p).error_message # ""
        /\ (req[p].kind = "sync" /\ req[p].pc = "done" /\ req[p].raised = "none") =>
              /\ Len(req[p].results) = Len(req[p].order)
              /\ \A i \in 1..Len(req[p].order) : req[p].results[i].field_id = req[p].order[i]

\* C10: sync of a document that does not exist raises at once (404 at the
\* route): the step changes no row and issues no remote call.
C10_MissingDocument ==
    [][\A p \in Procs :
          (req'[p] # req[p] /\ req'[p].kind = "sync" /\ req'[p].doc \notin forms) =>
              /\ req'[p].pc = "done"
              /\ SyncFormStatus(req'[p].raised) = 404
              /\ req'[p].results = <<>>
              /\ req'[p].log = <<>>
              /\ fields' = fields]_vars

C10_Witness ==
    \E p \in Procs :
        /\ req[p].kind = "sync" /\ req[p].pc = "done"
        /\ req[p].doc \notin forms
        /\ req[p].raised = "ValueError"

\* The rows of a document that a field_ids argument matches: all of them
\* when no id is given, else those whose id is listed.
MatchingFields(document_id, field_ids) ==
    {f \in FieldIds : fields[f].form_id = document_id /\ (field_ids = {} \/ f \in field_ids)}

\* C11: sync of an existing document with no matching field returns at once
\* with status synced, no results and an all-zero summary; the step issues
\* no remote call and changes no row.
C11_EmptySelection ==
    [][\A p \in Procs :
          (/\ req[p].pc = "idle" /\ req'[p].kind = "sync"
           /\ req'[p].doc \in forms
           /\ MatchingFields(req'[p].doc, req'[p].field_ids) = {}) =>
              /\ req'[p].pc = "done"
              /\ req'[p].raised = "none"
              /\ req'[p].status = "synced"
              /\ req'[p].results = <<>>
              /\ req'[p].summary = ZeroSummary
              /\ req'[p].op = "none" /\ req'[p].log = <<>>
              /\ fields' = fields]_vars

C11_Witness ==
    \E p \in Procs :
        /\ req[p].kind = "sync" /\ req[p].pc = "done" /\ req[p].raised = "none"
        /\ req[p].doc \in forms
        /\ req[p].field_ids # {}
        /\ MatchingFields(req[p].doc, req[p].field_ids) = {}
        /\ req[p].status = "synced" /\ req[p].results = <<>>

\* A sync request of p has returned a response.
Responded(p) ==
    req[p].kind = "sync" /\ req[p].pc = "done" /\ req[p].raised = "none"

SomeResult(p, status) ==
    \E i \in 1..Len(req[p].results) : req[p].results[i].status = status

\* C12: the status of a sync response is error when the result of some field
\* is error, else syncing when the result of some field is pending, else
\* synced; a response with status synced leaves no selected row in error.
C12_OverallStatus ==
    \A p \in Procs :
        Responded(p) =>
            /\ req[p].status = IF SomeResult(p, "error") THEN "error"
                               ELSE IF SomeResult(p, "pending") THEN "syncing"
                               ELSE "synced"
            /\ req[p].status = "synced" =>
                  \A i \in 1..Len(req[p].order) : fields[req[p].order[i]].status # "error"

C12_Witness ==
    \E p \in Procs :
        /\ Responded(p)
        /\ SomeResult(p, "error") /\ SomeResult(p, "synced")
        /\ req[p].status = "error"

\* A sync request of p is between its query and its response.
InSync(p) == req[p].kind = "sync" /\ req[p].pc \in {"loop", "call"}

\* The rows whose handling the request has completed are committed in the
\* terminal state their results report.
CompletedCommitted(p) ==
    \A i \in 1..Len(req[p].results) :
        LET row == fields[req[p].order[i]]
            result == req[p].results[i]
        IN  /\ row.status \in {"synced", "error", "conflict"}
            /\ row.status = result.status
            /\ result.status = "synced" => row.datapad_field_id = result.datapad_field_id

\* A step of a sync request changes no row but the one it is handling; a
\* crash changes no row at all; without force a synced row is not changed.
OnlyCurrentRowChanges(p) ==
    /\ req'[p].pc = "idle" => fields' = fields
    /\ \A f \in FieldIds :
          fields'[f] # fields[f] =>
              /\ req[p].idx <= Len(req[p].order)
              /\ f = req[p].order[req[p].idx]
              /\ ~req[p].force => fields[f].status # "synced"

\* C13: each row is committed before the next one is started: at any point
\* of a sync, hence after a crash at that point, the completed rows are in
\* their terminal state and the rows not yet reached are as they were; a
\* later sync without force changes no synced row.
C13_CommittedPerField ==
    /\ [](\A p \in Procs : req[p].kind = "sync" => CompletedCommitted(p))
    /\ [][\A p \in Procs : InSync(p) => OnlyCurrentRowChanges(p)]_vars

\* A sync without force is re-creating a row that a crashed sync left in
\* syncing, after it passed over a row that sync had completed.
C13_Witness ==
    \E p \in Procs :
        /\ req[p].kind = "sync" /\ req[p].pc = "call" /\ ~req[p].force
        /\ req[p].pre.status = "syncing"
        /\ Len(req[p].results) = 1
        /\ req[p].results[1].status = "synced"
        /\ fields[req[p].order[1]].status = "synced"

\* C14: a row holds a remote id only while its status is synced, or error or
\* conflict after it was synced.
C14_RemoteIdOnlyIfSynced ==
    \A f \in FieldIds :
        fields[f].datapad_field_id # NoId =>
            fields[f].status \in {"synced", "error", "conflict"}

\* The handling of the last field ran into a NotFound under the overwrite
\* policy.
OverwriteNotFound(p) ==
    /\ req[p].policy = "overwrite"
    /\ \E i \in 1..Len(req[p].log) : req[p].log[i].outcome = "DataPadNotFoundError"

\* The step is a reset that selects the row f.
ResetStep(p, f) ==
    /\ req[p].pc = "idle" /\ req'[p].kind = "reset"
    /\ fields[f].form_id = req'[p].doc

\* The step is the overwrite branch of the NotFound clause for the row f.
RecreateStep(p, f) ==
    /\ req[p].pc = "call" /\ req[p].policy = "overwrite"
    /\ f = CurField(req[p])
    /\ req'[p].pc = "call"
    /\ req'[p].log # <<>>
    /\ req'[p].log[Len(req'[p].log)].outcome = "DataPadNotFoundError"

BothCreate(p, q) ==
    /\ req[p].pc = "call" /\ req[q].pc = "call"
    /\ req[p].op = "create" /\ req[q].op = "create"
    /\ CurField(req[p]) = CurField(req[q])

\* C16: at most one sync is in flight per document, so that two syncs of a
\* document never both issue createField for the same field.
C16_OneSyncPerDocument ==
    \A p, q \in Procs :
        (p # q /\ InSync(p) /\ InSync(q)) =>
            /\ req[p].doc # req[q].doc
            /\ ~BothCreate(p, q)

\* C17: a sync handles its rows one at a time in the order of their ids,
\* appends the results in that order, and at any point has updated a prefix
\* of that order.
C17_OrderedById ==
    \A p \in Procs :
        req[p].kind = "sync" =>
            /\ \A i, j \in 1..Len(req[p].order) : i < j => req[p].order[i] < req[p].order[j]
            /\ Len(req[p].results) <= Len(req[p].order)
            /\ \A i \in 1..Len(req[p].results) : req[p].results[i].field_id = req[p].order[i]
            /\ req[p].pc \in {"loop", "call"} => req[p].idx = Len(req[p].results) + 1

Range(seq) == {seq[i] : i \in 1..Len(seq)}

\* C18: a sync handles exactly the rows of its document that field_ids
\* matches, and none of its steps changes a row outside that selection:
\* rows of other documents and rows of the document that a non-empty
\* field_ids does not list stay as they are.
C18_OnlySelection ==
    [][\A p \in Procs :
          /\ (req[p].pc = "idle" /\ req'[p].kind = "sync" /\ req'[p].raised = "none") =>
                /\ Range(req'[p].order) = MatchingFields(req'[p].doc, req'[p].field_ids)
                /\ fields' = fields
          /\ req[p].kind = "sync" =>
                /\ req'[p].kind = "sync" => /\ req'[p].order = req[p].order
                                             /\ req'[p].doc = req[p].doc
                /\ \A f \in FieldIds \ Range(req[p].order) : fields'[f] = fields[f]]_vars

\* A sync of one row by its id has synced it, while another row of the
\* document and a row of another document are still as extracted.
C18_Witness ==
    \E p \in Procs :
        /\ Responded(p) /\ Len(req[p].order) = 1
        /\ fields[req[p].order[1]].status = "synced"
        /\ \E f \in FieldIds \ Range(req[p].order) :
              /\ fields[f].status = "draft"
              /\ \/ fields[f].form_id # req[p].doc
                 \/ Cardinality(MatchingFields(req[p].doc, {})) > 1

\* A status request of p has returned a response.
HoldsStatus(p) ==
    req[p].kind = "status" /\ req[p].pc = "done" /\ req[p].raised = "none"

\* The counts of a status response.
Counts(response) ==
    <<response.total_fields, response.synced_fields, response.pending_fields,
      response.failed_fields, response.error_count>>

\* C19: get_sync_status changes no row (status, remote id and updated_at stay
\* as they were), and two calls for a document with no write in between
\* return the same counts.
C19_StatusReadOnly ==
    /\ [][\A p \in Procs :
            (req[p].pc = "idle" /\ req'[p].kind = "status") =>
                fields' = fields /\ forms' = forms]_vars
    /\ [](\A p, q \in Procs :
            (HoldsStatus(p) /\ HoldsStatus(q) /\ req[p].doc = req[q].doc) =>
                Counts(req[p].response) = Counts(req[q].response))

C19_Witness ==
    \E p, q \in Procs :
        /\ p # q /\ HoldsStatus(p) /\ HoldsStatus(q) /\ req[p].doc = req[q].doc
        /\ req[p].response.failed_fields >= 1
        /\ req[q].response.failed_fields >= 1
        /\ req[p].response.synced_fields >= 1

\* The rows of a document that have a status.
RowsWith(document_id, status) ==
    {f \in FieldIds : fields[f].form_id = document_id /\ fields[f].status = status}

\* C20: a status response counts the synced rows and the rows in error of
\* the document, holds one error string for each row in error, and gives as
\* last_sync_at the greatest updated_at of the synced rows, None when no row
\* is synced; a status request for a missing document raises (404 at the
\* route).
C20_StatusCounts ==
    \A p \in Procs :
        (req[p].kind = "status" /\ req[p].pc = "done") =>
            LET response == req[p].response
                synced == RowsWith(req[p].doc, "synced")
                failed == RowsWith(req[p].doc, "error")
            IN  IF req[p].doc \notin forms
                THEN SyncStatusRouteStatus(req[p].raised) = 404
                ELSE /\ req[p].raised = "none"
                     /\ response.synced_fields = Cardinality(synced)
                     /\ response.failed_fields = Cardinality(failed)
                     /\ Len(response.errors) = Cardinality(failed)
                     /\ Range(response.errors) = failed
                     /\ response.error_count = Cardinality(failed)
                     /\ synced = {} => response.last_sync_at = NoTime
                     /\ synced # {} =>
                           /\ \E f \in synced : fields[f].updated_at = response.last_sync_at
                           /\ \A f \in synced : fields[f].updated_at <= response.last_sync_at

\* A response whose last_sync_at is earlier than the update of a row in
\* error.
C20_Witness ==
    \E p \in Procs :
        /\ HoldsStatus(p)
        /\ req[p].response.synced_fields >= 1
        /\ req[p].response.failed_fields >= 1
        /\ \E f \in RowsWith(req[p].doc, "error") :
              fields[f].updated_at > req[p].response.last_sync_at

\* The step is a call of reset_sync_status by p.
IsReset(p) == req[p].pc = "idle" /\ req'[p].kind = "reset"

\* C21: a reset returns the number of rows it selects, which for a reset
\* of all fields is the number of rows of the document; afterwards every
\* selected row is pending without remote id, whatever it was before, and
\* every other row is as it was.
C21_ResetAll ==
    [][\A p \in Procs :
          IsReset(p) =>
              LET sel == MatchingFields(req'[p].doc, req'[p].field_ids)
              IN  /\ req'[p].pc = "done" /\ req'[p].raised = "none"
                  /\ req'[p].count = Cardinality(sel)
                  /\ req'[p].field_ids = {} =>
                        req'[p].count =
                            Cardinality({f \in FieldIds : fields[f].form_id = req'[p].doc})
                  /\ \A f \in sel : /\ fields'[f].status = "pending"
                                     /\ fields'[f].datapad_field_id = NoId
                                     /\ fields'[f].form_id = fields[f].form_id
                  /\ \A f \in FieldIds \ sel : fields'[f] = fields[f]]_vars

\* A reset of a whole document that held a synced row and a row in error,
\* while a row of another document keeps its remote id.
C21_Witness ==
    \E p \in Procs :
        /\ req[p].kind = "reset" /\ req[p].pc = "done"
        /\ req[p].field_ids = {} /\ req[p].count >= 1
        /\ \A f \in MatchingFields(req[p].doc, {}) : fields[f].status = "pending"
        /\ \E f \in FieldIds : /\ fields[f].form_id # req[p].doc
                                /\ fields[f].status = "synced"
                                /\ fields[f].datapad_field_id # NoId

\* C22: reset is idempotent: applied once more with the same arguments to
\* the rows it leaves, it leaves the same rows and returns the same count.
C22_ResetIdempotent ==
    [][\A p \in Procs, d \in DocIds, ids \in SUBSET FieldIdInputs :
          (IsReset(p) /\ req'[p].doc = d /\ req'[p].field_ids = ids) =>
              /\ ResetRows(SelectFields(d, ids))' = fields'
              /\ Cardinality(SelectFields(d, ids))' = req'[p].count]_vars

\* A reset by ids that changed a row.
C22_Witness ==
    \E p \in Procs :
        /\ req[p].kind = "reset" /\ req[p].pc = "done"
        /\ req[p].field_ids # {} /\ req[p].count >= 1
        /\ \E f \in FieldIds : fields[f].status \notin {"pending"}

\* C23: a reset for a document that does not exist fails with 404 and
\* reports no count.
C23_ResetMissingDocument ==
    \A p \in Procs :
        (req[p].kind = "reset" /\ req[p].pc = "done" /\ req[p].doc \notin forms) =>
            ResetSyncRouteStatus(req[p].raised) = 404


\* The attempt ended in a timeout or a network failure.
IsTransient(entry) == entry.outcome \in {"TimeoutException", "NetworkError"}

IsClientCall(p) == req[p].kind \in {"request", "authenticate", "health"}

\* C24: a call of the client makes at most three attempts; a further
\* attempt is made only when every earlier attempt of the call ended in a
\* timeout or network failure, so an attempt that received an HTTP response
\* is the last one of its call.
C24_RetryOnlyTransient ==
    \A p \in Procs :
        IsClientCall(p) =>
            /\ req[p].attempt <= MaxAttempts
            /\ req[p].attempt = Len(req[p].log) + (IF req[p].pc = "wait" THEN 1 ELSE 0)
            /\ \A i \in 1..(Len(req[p].log) - 1) : IsTransient(req[p].log[i])
            /\ req[p].pc \in {"wait", "backoff"} =>
                   \A i \in DOMAIN req[p].log : IsTransient(req[p].log[i])

C24_Witness ==
    \E p \in Procs :
        /\ IsClientCall(p) /\ req[p].pc = "done"
        /\ Len(req[p].log) = MaxAttempts
        /\ req[p].log[MaxAttempts].outcome = "response"

\* The remote call of the last handled field gave up after its last attempt
\* ended like the earlier ones in a timeout or network failure.
RetriesExhausted(p) ==
    /\ Handled(p)
    /\ req[p].log # <<>>
    /\ req[p].log[Len(req[p].log)].outcome = "RetryError"

\* C25: when every attempt of a remote call ended in a timeout or network
\* failure, the failure reaches _sync_field as an error that is none of the
\* classified ones and is recorded on the field (row status error, result
\* status error); the sync goes on and raises nothing.
C25_ExhaustedRetriesFieldError ==
    \A p \in Procs :
        RetriesExhausted(p) =>
            /\ LastRow(p).status = "error"
            /\ LastResult(p).status = "error"
            /\ LastResult(p).error_message = "Unexpected error"
            /\ req[p].raised = "none"
            /\ req[p].summary.failed >= 1

C25_Witness ==
    \E p \in Procs :
        /\ RetriesExhausted(p)
        /\ req[p].pc = "loop"
        /\ LastResult(p).status = "error"

\* The last attempt of a call of the client.
LastAttempt(p) == req[p].log[Len(req[p].log)]

\* The call of p is over and its last attempt received an error response.
ErrorResponded(p) ==
    /\ IsClientCall(p)
    /\ req[p].pc = "done"
    /\ req[p].op # "health_check"
    /\ LastAttempt(p).outcome = "response"
    /\ LastAttempt(p).status_code >= 400

\* C26: an error response (status 400 or above) raises the one exception
\* class its status selects: 401 and 403 the authentication error, 404 the
\* not-found error, 422 the validation error, 429 the rate-limit error, any
\* other status the base error; the exception carries that status, a message
\* taken from the body and the details of the body or none.
C26_ClassifiedByStatus ==
    \A p \in Procs :
        ErrorResponded(p) =>
            LET status_code == LastAttempt(p).status_code
                body == LastAttempt(p).body
            IN  /\ req[p].error.class =
                      CASE status_code = 401 -> "DataPadAuthenticationError"
                        [] status_code = 403 -> "DataPadAuthenticationError"
                        [] status_code = 404 -> "DataPadNotFoundError"
                        [] status_code = 422 -> "DataPadValidationError"
                        [] status_code = 429 -> "DataPadRateLimitError"
                        [] OTHER -> "DataPadAPIError"
                /\ req[p].error.status_code = status_code
                /\ req[p].error.message \in {body.message, body.error, body.text}
                /\ req[p].error.message # ""
                /\ req[p].error.details \in {body.details, {}}

C26_Witness ==
    \E p \in Procs :
        /\ ErrorResponded(p)
        /\ LastAttempt(p).status_code = 422
        /\ req[p].error.class = "DataPadValidationError"
        /\ req[p].error.details # {}

\* The step is the arrival of a response for the attempt of p in flight.
ResponseArrives(p) ==
    /\ IsClientCall(p)
    /\ req[p].pc = "wait"
    /\ req'[p].headers # NoResponse

\* The number a rate-limit header carries, or `kept` when the header is
\* absent or carries no number.
Carried(header, kept) ==
    CASE header = "0" -> 0
      [] header = "1" -> 1
      [] header = "2" -> 2
      [] OTHER -> kept

\* C27: a response, whatever its status, sets each rate-limit counter to the
\* number its header carries and leaves the counter as it was when the header
\* is absent (or carries no number); whatever the counters hold, a call can
\* be started and a waiting retry can be sent.
C27_RateLimitsTracked ==
    /\ [][\A p \in Procs :
            ResponseArrives(p) =>
                /\ client'.rate_limit_remaining =
                      Carried(req'[p].headers.remaining, client.rate_limit_remaining)
                /\ client'.rate_limit_reset =
                      Carried(req'[p].headers.reset, client.rate_limit_reset)]_vars
    /\ [](\A p \in workers :
            /\ req[p].pc = "idle" => ENABLED ClientRequest(p)
            /\ req[p].pc = "backoff" => ENABLED RetryAttempt(p))

\* An attempt is in flight although the counter of remaining calls is 0,
\* after a response set both counters.
C27_Witness ==
    \E p \in Procs :
        /\ req[p].kind = "request" /\ req[p].pc = "wait" /\ req[p].attempt = 1
        /\ client.rate_limit_remaining = 0
        /\ client.rate_limit_reset = 1

\* The health route of p has read is_configured.
HealthDecided(p) ==
    /\ req[p].kind = "health"
    /\ req[p].op = "authenticate" \/ req[p].pc = "done"

\* C29: is_configured is true exactly when the base URL and the API key are
\* both set to a non-empty value; the health route authenticates exactly
\* then.
C29_IsConfigured ==
    \A p \in Procs :
        HealthDecided(p) =>
            /\ req[p].configured <=>
                  (client.base_url \notin {None, ""} /\ client.api_key \notin {None, ""})
            /\ req[p].configured <=> req[p].op = "authenticate"

\* The health route found a client with a key but an empty base URL not
\* configured.
C29_Witness ==
    \E p \in Procs :
        /\ HealthDecided(p)
        /\ ~req[p].configured
        /\ client.api_key = ConfiguredKey
        /\ client.base_url = ""

\* C28: authenticate(candidateKey) does not touch the configuration the
\* callers of a client share: every request that is not an authenticate call
\* is sent with the configured key, and when no authenticate call is in
\* progress the client holds the configured key.
C28_AuthenticateKeepsConfiguration ==
    /\ \A p \in Procs :
          (req[p].kind = "request" /\ req[p].pc = "wait") =>
              req[p].auth = <<"Bearer", ConfiguredKey>>
    /\ (\A p \in Procs : ~(req[p].op = "authenticate" /\ req[p].pc \in {"wait", "backoff"})) =>
           client.api_key = ConfiguredKey

\* The step is the call `op` of the mock client on `target` by p.
MockCall(p, op, target) ==
    /\ req[p].pc = "idle"
    /\ req'[p].kind = "mock"
    /\ req'[p].op = op
    /\ req'[p].target = target

\* The error of the call is the one the real client raises for a 404.
RaisedNotFound(r) ==
    /\ r.error.class = ErrorClass(404)
    /\ r.error.status_code = 404
    /\ r.raised = "DataPadNotFoundError"

Suggested(p) == req[p].kind = "suggest" /\ req[p].pc = "done"

\* No provider was asked, or the provider gave no usable answer.
ProviderUnused(p) ==
    \/ ~req[p].enabled
    \/ req[p].provider \notin {"openai", "anthropic", "gemini"}
    \/ req[p].log # <<>> /\ req[p].log[1].outcome # "answer"

\* C31: suggest_labels raises nothing when no provider is enabled, the
\* provider is unknown or the provider call fails in any way: it returns the
\* heuristic suggestions, one per descriptor.
C31_FallbackToHeuristic ==
    \A p \in Procs :
        (Suggested(p) /\ ProviderUnused(p)) =>
            /\ req[p].raised = "none"
            /\ req[p].results = HeuristicSuggestions(req[p].input)
            /\ Len(req[p].results) = Len(req[p].input)

\* The provider call timed out and the heuristic labelled two descriptors.
C31_Witness ==
    \E p \in Procs :
        /\ Suggested(p)
        /\ req[p].enabled /\ req[p].provider = "anthropic"
        /\ req[p].log = <<[outcome |-> "TimeoutException"]>>
        /\ Len(req[p].results) = MaxDescriptors
        /\ req[p].results[1].display_label = "Field One"

\* C32: suggest_labels returns as many suggestions as it was given
\* descriptors, whether the heuristic or a provider produced them.
C32_SameLength ==
    \A p \in Procs :
        Suggested(p) => Len(req[p].results) = Len(req[p].input)

\* C33: when a sync returns normally, none of the rows it selected is
\* left in status syncing: each is synced, error or conflict, also after the
\* overwrite policy sent the row through _sync_field a second time.
C33_NoSyncingLeft ==
    \A p \in Procs :
        Responded(p) =>
            \A f \in Range(req[p].order) : fields[f].status \in {"synced", "error", "conflict"}

\* A sync under the overwrite policy returned after the registry answered
\* the update of its last row with 404 and the following create with an
\* error.
C33_Witness ==
    \E p \in Procs :
        /\ Responded(p)
        /\ Len(req[p].order) = NumFields
        /\ OverwriteNotFound(p)
        /\ LastResult(p).status = "error"

\* C34: when the registry accepts every create and update, a sync without
\* force that returns leaves every selected row synced with a remote id,
\* whatever the row held before, and its response has status synced.
C34_AllSyncedWhenAccepted ==
    \A p \in Procs :
        (Responded(p) /\ ~req[p].force) =>
            /\ req[p].status = "synced"
            /\ \A f \in Range(req[p].order) :
                  /\ fields[f].status = "synced"
                  /\ fields[f].datapad_field_id # NoId

\* The sync returned after it synced a row that a crashed run had left in
\* syncing without a remote id.
C34_Witness ==
    \E p \in Procs :
        /\ Responded(p) /\ ~req[p].force
        /\ Len(req[p].results) >= 1
        /\ req[p].pre.status = "syncing" /\ req[p].pre.datapad_field_id = NoId
        /\ LastRow(p).status = "synced"

\* Number of results of the request with a status.
ResultCount(p, status) ==
    Cardinality({i \in 1..Len(req[p].results) : req[p].results[i].status = status})

\* C35: a field that ends in conflict is counted under summary.skipped and
\* not under summary.failed, so a sync whose results hold conflicts and no
\* error returns the status synced.
C35_ConflictCountsAsSkipped ==
    \A p \in Procs :
        req[p].kind = "sync" =>
            /\ req[p].summary.skipped = ResultCount(p, "conflict")
            /\ req[p].summary.failed = ResultCount(p, "error")
            /\ (Responded(p) /\ SomeResult(p, "conflict") /\ ~SomeResult(p, "error")) =>
                   req[p].status = "synced"

C35_Witness ==
    \E p \in Procs :
        /\ Responded(p)
        /\ SomeResult(p, "conflict") /\ ~SomeResult(p, "error")
        /\ req[p].summary.skipped >= 1
        /\ req[p].status = "synced"

\* C36: in every response of a sync summary.pending is 0 and the status is
\* not syncing; the four counts of the summary add up to the number of
\* results, and a row skipped as already synced is counted under
\* summary.synced.
C36_SummaryCounts ==
    \A p \in Procs :
        /\ Responded(p) =>
              /\ req[p].summary.pending = 0
              /\ req[p].status # "syncing"
              /\ req[p].summary.synced + req[p].summary.pending
                     + req[p].summary.failed + req[p].summary.skipped = Len(req[p].results)
              /\ req[p].summary.synced = ResultCount(p, "synced")
        /\ (Handled(p) /\ WasSyncedAndMapped(p) /\ ~req[p].force) =>
              /\ LastResult(p).status = "synced"
              /\ req[p].summary.synced >= 1

\* A response whose rows were all skipped as already synced.
C36_Witness ==
    \E p \in Procs :
        /\ Responded(p)
        /\ WasSyncedAndMapped(p) /\ ~req[p].force
        /\ req[p].log = <<>>
        /\ Len(req[p].results) = NumFields
        /\ req[p].summary.synced = NumFields

\* Under the overwrite policy updateField raised NotFound and the call that
\* followed failed with another error.
RecreateFailed(p) ==
    /\ Handled(p)
    /\ req[p].policy = "overwrite"
    /\ UpdateNotFound(p)
    /\ Len(req[p].log) = 2
    /\ req[p].log[2].outcome \notin {"ok", "DataPadNotFoundError"}

\* C37: under the overwrite policy, when updateField raises NotFound and the
\* createField that follows fails with another error, the row is committed
\* with status error and without remote id (the id it held is lost) and the
\* result has status error.
C37_RecreateFailureLosesId ==
    \A p \in Procs :
        RecreateFailed(p) =>
            /\ req[p].log[2].op = "create"
            /\ LastRow(p).status = "error"
            /\ LastRow(p).datapad_field_id = NoId
            /\ LastResult(p).status = "error"
            /\ LastResult(p).datapad_field_id = NoId

C37_Witness ==
    \E p \in Procs :
        /\ RecreateFailed(p)
        /\ req[p].pre.datapad_field_id # NoId
        /\ req[p].log[2].outcome = "DataPadRateLimitError"
        /\ LastRow(p).datapad_field_id = NoId

\* The step starts a request of p on document d whose argument field_ids
\* is omitted or the empty list.
StartsUnfiltered(p, kind, d) ==
    /\ req[p].pc = "idle"
    /\ req'[p].kind = kind
    /\ req'[p].doc = d
    /\ req'[p].field_ids = {}

\* C38: an empty list of field ids is no filter: a sync and a reset called
\* with the empty list select every row of the document, as they do when the
\* argument is omitted; the reset resets all of them.
C38_EmptyListIsNoFilter ==
    [][\A p \in Procs, d \in DocIds :
        LET rows == {f \in FieldIds : fields[f].form_id = d}
        IN  /\ StartsUnfiltered(p, "sync", d) =>
                  /\ Range(req'[p].order) = rows
                  /\ Len(req'[p].order) = Cardinality(rows)
            /\ StartsUnfiltered(p, "reset", d) =>
                  /\ req'[p].count = Cardinality(rows)
                  /\ \A f \in rows : /\ fields'[f].status = "pending"
                                     /\ fields'[f].datapad_field_id = NoId]_vars

\* A sync called with the empty list is about to handle the first of the
\* rows of its document.
C38_Witness ==
    \E p \in Procs :
        /\ req[p].kind = "sync" /\ req[p].pc = "loop" /\ req[p].idx = 1
        /\ ~req[p].omitted /\ req[p].field_ids = {}
        /\ Len(req[p].order) >= 1
        /\ req[p].results = <<>>

\* Some row of the document of the request of p has the status.
SomeRowIs(p, status) ==
    \E f \in FieldIds : fields[f].form_id = req[p].doc /\ fields[f].status = status

\* C39: a status response has status error exactly when some row of the
\* document is in error; without such a row it is synced exactly when every
\* row of the document is synced (also when the document has no row) and
\* pending otherwise, so whenever a row is in conflict or syncing; the counts
\* of synced, pending and failed rows add up to total_fields exactly when no
\* row is in conflict or syncing.
C39_StatusOfDocument ==
    \A p \in Procs :
        HoldsStatus(p) =>
            LET r == req[p].response
                all_synced == \A f \in FieldIds :
                                 fields[f].form_id = req[p].doc => fields[f].status = "synced"
                odd == SomeRowIs(p, "conflict") \/ SomeRowIs(p, "syncing")
            IN  /\ r.status = "error" <=> SomeRowIs(p, "error")
                /\ ~SomeRowIs(p, "error") =>
                      /\ r.status = "synced" <=> all_synced
                      /\ ~all_synced => r.status = "pending"
                      /\ odd => r.status = "pending"
                /\ (r.synced_fields + r.pending_fields + r.failed_fields = r.total_fields)
                       <=> ~odd

\* The status of a document without rows is synced.
C39_Witness ==
    \E p \in Procs :
        /\ HoldsStatus(p)
        /\ req[p].doc \in forms
        /\ req[p].response.total_fields = 0
        /\ req[p].response.status = "synced"

\* The status of a document with a row in conflict and none in error or
\* pending is pending.
C39_WitnessConflict ==
    \E p \in Procs :
        /\ HoldsStatus(p)
        /\ SomeRowIs(p, "conflict")
        /\ req[p].response.pending_fields = 0
        /\ req[p].response.status = "pending"

====
